---- MODULE Spec2Model ----
(***************************************************************************)
(* Model of fdt-rs's modify-and-serialize engine:                          *)
(*   src/src/modify/serializer.rs  (Serializer)                            *)
(*   src/src/modify/modtoken.rs    (ModifyTokenResponse, ModifyParsedTok)  *)
(*   src/src/priv_util.rs          (SliceRead / SliceWrite accessors)      *)
(*                                                                         *)
(* A byte buffer is a sequence of bytes; the byte at offset o is buf[o+1]. *)
(* One modify call is walked step by step (pc): header, rsvmap, begin,     *)
(* struct and callback (per source token: the token written, then the      *)
(* callback and its response), tail, done. A write that fails is unwrapped *)
(* by the code and so ends the call with result "Panic".                   *)
(* AccessorSpec is one write_be_u32 / write_be_u64 call on its own, with    *)
(* offsets up to usize::MAX.                                               *)
(***************************************************************************)
EXTENDS Integers, Sequences, FiniteSets, TLC

\* ------------------------------------------------------------------ bounds

\* Longest source token stream.
MaxTokens == 3

\* Largest destination buffer.
MaxBuf == 128

\* Width of usize in bits (the narrowest pointer width Rust targets have).
UsizeBits == 16

\* Longest buffer handed to an accessor called on its own.
MaxAccLen == 9

\* ------------------------------------------------------- format constants

\* crate::spec::FdtTok discriminants (the standard FDT tags).
FDT_BEGIN_NODE == 1

FDT_END_NODE == 2

FDT_PROP == 3

FDT_NOP == 4

FDT_END == 9

\* crate::spec::FDT_MAGIC, 0xd00dfeed, as the 32-bit two's-complement integer
\* with the same bit pattern (to_be yields d0 0d fe ed).
FDT_MAGIC == 0 - 804389139

\* size_of::<fdt_header>(): ten 32-bit fields.
HeaderSize == 40

\* size_of::<fdt_reserve_entry>(): two 64-bit fields.
RsvEntrySize == 16

\* ------------------------------------------------------ buffer accessors

Pow256(k) == CASE k = 0 -> 1 [] k = 1 -> 256 [] k = 2 -> 65536 [] k = 3 -> 16777216

\* $val.to_be() laid out in memory: the w bytes of val, most significant first.
\* Every value of the model is below 2^31 in magnitude, so the bytes above the
\* low four are the sign extension (0 for the unsigned values).
to_be(val, w) ==
    [i \in 1..w |-> IF w - i >= 4 THEN 0 ELSE (val \div Pow256(w - i)) % 256]

\* write_unaligned: the bytes stored at off, off + 1, ...
RECURSIVE write_unaligned(_, _, _, _)
write_unaligned(buf, off, bytes, i) ==
    IF i > Len(bytes) THEN buf
    ELSE write_unaligned([buf EXCEPT ![off + i] = bytes[i]], off, bytes, i + 1)

\* usize::MAX.
UsizeMax == 2 ^ UsizeBits - 1

\* be_write!: the bounds check, then write_unaligned of the big-endian value.
\* ok tells Ok from Err(UnexpectedEndOfInput). `$off + size_of::<$type>()` is
\* a usize addition: when the sum exceeds usize::MAX the outcome depends on the
\* build (fault "overflow", resolved by overflowed below).
be_write(buf, w, off, val) ==
    IF off + w > UsizeMax
    THEN [ok |-> FALSE, buf |-> buf, fault |-> "overflow"]
    ELSE IF off + w > Len(buf)
    THEN [ok |-> FALSE, buf |-> buf, fault |-> "none"]
    ELSE [ok |-> TRUE, buf |-> write_unaligned(buf, off, to_be(val, w), 1),
          fault |-> "none"]

\* What be_write! does when `$off + size_of::<$type>()` overflows. With overflow
\* checks (debug builds) the addition panics. Without them (release builds) the
\* sum wraps modulo 2^UsizeBits: if the wrapped sum still exceeds the length the
\* result is Err, otherwise the check passes and write_unaligned stores through
\* buf.as_ptr().add($off), outside the slice, and Ok is returned.
overflowed(buf, w, off, overflow_checks) ==
    IF overflow_checks
    THEN [ok |-> FALSE, buf |-> buf, fault |-> "panic"]
    ELSE IF (off + w) % (UsizeMax + 1) > Len(buf)
    THEN [ok |-> FALSE, buf |-> buf, fault |-> "none"]
    ELSE [ok |-> TRUE, buf |-> buf, fault |-> "out_of_bounds"]

write_be_u32(buf, pos, value) == be_write(buf, 4, pos, value)

write_be_u64(buf, pos, value) == be_write(buf, 8, pos, value)

\* write_slice: one checked u8 write per byte, stopping at the first failure
\* (the bytes before it stay written).
RECURSIVE write_slice_from(_, _, _, _)
write_slice_from(buf, pos, slice, i) ==
    IF i > Len(slice) THEN [ok |-> TRUE, buf |-> buf, fault |-> "none"]
    ELSE LET w == be_write(buf, 1, pos + (i - 1), slice[i])
         IN  IF ~w.ok THEN w ELSE write_slice_from(w.buf, pos, slice, i + 1)

write_slice(buf, pos, slice) == write_slice_from(buf, pos, slice, 1)

\* write_bstring0: the bytes as write_slice writes them, then one zero byte.
write_bstring0(buf, pos, string) ==
    LET w == write_slice_from(buf, pos, string, 1)
    IN  IF ~w.ok THEN w ELSE be_write(w.buf, 1, pos + Len(string), 0)

\* be_read!: the bounds check, then the big-endian value at off (a value with
\* the top bit set comes back as its two's-complement integer).
read_be_u32(buf, pos) ==
    IF pos + 4 > Len(buf)
    THEN [ok |-> FALSE, val |-> 0]
    ELSE [ok |-> TRUE,
          val |-> (IF buf[pos + 1] >= 128 THEN buf[pos + 1] - 256 ELSE buf[pos + 1])
                     * Pow256(3)
                  + buf[pos + 2] * Pow256(2) + buf[pos + 3] * 256 + buf[pos + 4]]

\* read_bstring0: the bytes from pos up to the first zero byte.
RECURSIVE read_bstring0_from(_, _, _)
read_bstring0_from(buf, pos, i) ==
    IF i >= Len(buf) THEN [ok |-> FALSE, val |-> <<>>]
    ELSE IF buf[i + 1] = 0 THEN [ok |-> TRUE, val |-> SubSeq(buf, pos + 1, i)]
    ELSE read_bstring0_from(buf, pos, i + 1)

read_bstring0(buf, pos) == read_bstring0_from(buf, pos, pos)

\* ------------------------------------------------------------ the source

\* The ParsedTok values the parser yields.
BeginNodeTok(name) ==
    [kind |-> "BeginNode", name |-> name, name_offset |-> 0, prop_buf |-> <<>>]

EndNodeTok == [kind |-> "EndNode", name |-> <<>>, name_offset |-> 0, prop_buf |-> <<>>]

NopTok == [kind |-> "Nop", name |-> <<>>, name_offset |-> 0, prop_buf |-> <<>>]

PropTok(name_offset, prop_buf) ==
    [kind |-> "Prop", name |-> <<>>, name_offset |-> name_offset, prop_buf |-> prop_buf]

\* Node names of the source trees (no zero byte inside a name): the empty name
\* and one of 16 bytes, whose token is longer than a property's header and
\* value and whose terminating zero starts a new 4-byte word.
NodeNames ==
    {<<>>, <<97, 98, 99, 100, 101, 102, 103, 104, 105, 106, 107, 108, 109, 110, 111, 112>>}

\* Property values of the source trees.
PropValues == {<<17, 18, 19, 20, 21>>}

\* Offset of the property name in the strings block.
PropNameOffset == 2

SourceToks ==
    {BeginNodeTok(n) : n \in NodeNames} \cup {EndNodeTok, NopTok}
    \cup {PropTok(PropNameOffset, v) : v \in PropValues}

TokenStreams == UNION {[1..n -> SourceToks] : n \in 0..MaxTokens}

\* The strings block of the source (5 bytes: its end is not 4-byte aligned).
SourceStrings == <<120, 0, 121, 122, 0>>

\* Reservation entries the source's reserved_entries() yields.
RsvEntry == [address |-> 4660, size |-> 256]

\* Layouts of the source blob: the number of reservation entries, and the
\* distance from the last entry to the structure block (0: none; 16: the
\* all-zero terminator entry, which reserved_entries() does not yield;
\* 2: a structure block that is not 4-byte aligned).
SourceLayouts ==
    {[nrsv |-> 1, gap |-> 0], [nrsv |-> 0, gap |-> 16], [nrsv |-> 0, gap |-> 2]}

AlignUp4(n) == IF n % 4 = 0 THEN n ELSE n + (4 - (n % 4))

\* Bytes a token takes in a structure block (tag, payload, padding).
TokWireSize(tok) ==
    CASE tok.kind = "BeginNode" -> 4 + AlignUp4(Len(tok.name) + 1)
      [] tok.kind = "Prop" -> 12 + AlignUp4(Len(tok.prop_buf))
      [] OTHER -> 4

RECURSIVE StreamWireSize(_)
StreamWireSize(toks) ==
    IF toks = <<>> THEN 0 ELSE TokWireSize(Head(toks)) + StreamWireSize(Tail(toks))

\* The parsed source tree: header accessors, reserved_entries(), the token
\* stream of parse_iter() and the strings region of buf().
DevTree(layout, toks) ==
    LET off_struct == HeaderSize + RsvEntrySize * layout.nrsv + layout.gap
        size_struct == StreamWireSize(toks) + 4
    IN  [totalsize |-> off_struct + size_struct + Len(SourceStrings),
         off_dt_struct |-> off_struct,
         off_dt_strings |-> off_struct + size_struct,
         off_mem_rsvmap |-> HeaderSize,
         version |-> 17,
         last_comp_version |-> 16,
         boot_cpuid_phys |-> 0,
         size_dt_strings |-> Len(SourceStrings),
         size_dt_struct |-> size_struct,
         reserved_entries |-> [i \in 1..layout.nrsv |-> RsvEntry],
         tokens |-> toks,
         strings |-> SourceStrings]

\* ------------------------------------------------------------ Serializer

\* One modify call: the Serializer's offset field, the output buffer, and the
\* call's locals and outcome.
\*   result: "Running" | "Ok" | "InvalidParameter" | "Panic" (an .unwrap() of
\*   an Err(UnexpectedEndOfInput) write result unwinds out of modify).
NewCall(prior_offset, out) ==
    [offset |-> prior_offset, output |-> out, pc |-> "header", result |-> "Running",
     starting_offset |-> 0, node_offset |-> 0, new_structure_block_size |-> 0,
     ret |-> 0]

set_offset(r, new_offset) == [r EXCEPT !.offset = new_offset]

get_offset(r) == r.offset

\* align_offset::<u32>
align_offset(r) ==
    LET misalignment == r.offset % 4
    IN  IF misalignment # 0 THEN [r EXCEPT !.offset = r.offset + (4 - misalignment)]
        ELSE r

\* The .unwrap() each call site applies to a serialize_* result. Once the call
\* has panicked nothing after it runs.
Unwrap(r, w, advance) ==
    [r EXCEPT !.output = w.buf, !.offset = r.offset + advance,
              !.result = IF w.ok THEN r.result ELSE "Panic"]

serialize_u32(r, val) ==
    IF r.result # "Running" THEN r
    ELSE Unwrap(r, write_be_u32(r.output, r.offset, val), 4)

serialize_u64(r, val) ==
    IF r.result # "Running" THEN r
    ELSE Unwrap(r, write_be_u64(r.output, r.offset, val), 8)

serialize_slice(r, val) ==
    IF r.result # "Running" THEN r
    ELSE Unwrap(r, write_slice(r.output, r.offset, val), Len(val))

\* Mutant: the terminating zero byte is written but not counted.
serialize_string_uncounted(r, val) ==
    IF r.result # "Running" THEN r
    ELSE Unwrap(r, write_bstring0(r.output, r.offset, val), Len(val))

serialize_string(r, val) ==
    IF r.result # "Running" THEN r
    ELSE Unwrap(r, write_bstring0(r.output, r.offset, val), Len(val) + 1)

RECURSIVE serialize_u32s(_, _)
serialize_u32s(r, vals) ==
    IF vals = <<>> THEN r
    ELSE serialize_u32s(serialize_u32(r, Head(vals)), Tail(vals))

\* Mutant: the header is written from wherever the cursor was left.
serialize_header_noreset(r, dt) ==
    serialize_u32s(r,
                   <<FDT_MAGIC, dt.totalsize, dt.off_dt_struct, dt.off_dt_strings,
                     dt.off_mem_rsvmap, dt.version, dt.last_comp_version,
                     dt.boot_cpuid_phys, dt.size_dt_strings, dt.size_dt_struct>>)

serialize_header(r, dt) ==
    serialize_u32s(set_offset(r, 0),
                   <<FDT_MAGIC, dt.totalsize, dt.off_dt_struct, dt.off_dt_strings,
                     dt.off_mem_rsvmap, dt.version, dt.last_comp_version,
                     dt.boot_cpuid_phys, dt.size_dt_strings, dt.size_dt_struct>>)

RECURSIVE serialize_entries(_, _)
serialize_entries(r, entries) ==
    IF entries = <<>> THEN r
    ELSE serialize_entries(
             serialize_u64(serialize_u64(r, Head(entries).address), Head(entries).size),
             Tail(entries))

serialize_memory_reservation_block(r, dt) ==
    serialize_entries(set_offset(r, dt.off_mem_rsvmap), dt.reserved_entries)

\* Mutant: a property's value is not yet in the buffer when the callback runs
\* (the cursor is moved past it, the bytes are not stored).
serialize_token_late_value(r, tok) ==
    CASE tok.kind = "BeginNode" ->
           LET r1 == serialize_u32(r, FDT_BEGIN_NODE)
           IN  IF tok.name = <<>> THEN serialize_u32(r1, 0)
               ELSE serialize_string(r1, tok.name)
      [] tok.kind = "Prop" ->
           LET r1 == serialize_u32(
                         serialize_u32(serialize_u32(r, FDT_PROP), Len(tok.prop_buf)),
                         tok.name_offset)
           IN  IF r1.result # "Running" THEN r1
               ELSE set_offset(r1, get_offset(r1) + Len(tok.prop_buf))
      [] tok.kind = "EndNode" -> serialize_u32(r, FDT_END_NODE)
      [] tok.kind = "Nop" -> serialize_u32(r, FDT_NOP)

\* Mutant: the EndNode arm stores the Nop tag.
serialize_token_endnop(r, tok) ==
    CASE tok.kind = "BeginNode" ->
           LET r1 == serialize_u32(r, FDT_BEGIN_NODE)
           IN  IF tok.name = <<>> THEN serialize_u32(r1, 0)
               ELSE serialize_string(r1, tok.name)
      [] tok.kind = "Prop" ->
           serialize_slice(
               serialize_u32(
                   serialize_u32(serialize_u32(r, FDT_PROP), Len(tok.prop_buf)),
                   tok.name_offset),
               tok.prop_buf)
      [] tok.kind = "EndNode" -> serialize_u32(r, FDT_NOP)
      [] tok.kind = "Nop" -> serialize_u32(r, FDT_NOP)

\* The match on the token (serializer.rs 129-175): the token's bytes written at
\* the cursor.
serialize_token(r, tok) ==
    CASE tok.kind = "BeginNode" ->
           LET r1 == serialize_u32(r, FDT_BEGIN_NODE)
           IN  IF tok.name = <<>> THEN serialize_u32(r1, 0)
               ELSE serialize_string(r1, tok.name)
      [] tok.kind = "Prop" ->
           serialize_slice(
               serialize_u32(
                   serialize_u32(serialize_u32(r, FDT_PROP), Len(tok.prop_buf)),
                   tok.name_offset),
               tok.prop_buf)
      [] tok.kind = "EndNode" -> serialize_u32(r, FDT_END_NODE)
      [] tok.kind = "Nop" -> serialize_u32(r, FDT_NOP)

\* original_size, the callback's second argument.
original_size(tok) ==
    CASE tok.kind = "BeginNode" -> Len(tok.name)
      [] tok.kind = "Prop" -> Len(tok.prop_buf)
      [] OTHER -> 0

\* prop_offset: where the window &mut output[prop_offset..] of a Prop starts.
prop_offset(node_offset) == node_offset + 12

\* What a callback does: the bytes it stores at the start of its window (only a
\* Prop has one) and the ModifyTokenResponse it returns.
Pass == [resp |-> "Pass", new_size |-> 0, data |-> <<>>]

Drop == [resp |-> "Drop", new_size |-> 0, data |-> <<>>]

ModifySize(n, data) == [resp |-> "ModifySize", new_size |-> n, data |-> data]

Overwrite(data) == [resp |-> "Pass", new_size |-> 0, data |-> data]

\* The bytes a callback stores.
CbBytes(n) == [i \in 1..n |-> 200 + i]

\* Lengths a callback resizes a property to (shorter and longer than the
\* 5-byte source value: one word less and the same number of words).
ResizeLens == {1, 6}

CallbackBehaviours(tok) ==
    IF tok.kind = "Prop"
    THEN {Pass, Drop, Overwrite(CbBytes(1)), ModifySize(6, <<>>)}
         \cup {ModifySize(n, CbBytes(n)) : n \in ResizeLens}
    ELSE {Pass, Drop, ModifySize(1, <<>>)}

\* filter_map(&mut modifytoken, original_size): the callback's stores into the
\* window, which fit it (Fits).
Fits(r, tok, node_offset, b) ==
    b.data = <<>> \/ prop_offset(node_offset) + Len(b.data) <= Len(r.output)

filter_map(r, tok, node_offset, b) ==
    IF tok.kind = "Prop" /\ b.data # <<>>
    THEN [r EXCEPT !.output = write_unaligned(r.output, prop_offset(node_offset), b.data, 1)]
    ELSE r

\* Mutant: ModifySize for a token that is not a Prop is taken as Pass.
apply_response_lenient(r, tok, node_offset, b) ==
    CASE b.resp = "Pass" -> r
      [] b.resp = "Drop" -> set_offset(r, node_offset)
      [] b.resp = "ModifySize" ->
           IF tok.kind = "Prop"
           THEN LET r1 == serialize_u32(
                              serialize_u32(set_offset(r, node_offset + 4), b.new_size),
                              tok.name_offset)
                IN  IF r1.result # "Running" THEN r1
                    ELSE set_offset(r1, get_offset(r1) + b.new_size)
           ELSE r

\* Mutant: Drop rewinds past the token's tag only.
apply_response_halfdrop(r, tok, node_offset, b) ==
    CASE b.resp = "Pass" -> r
      [] b.resp = "Drop" -> set_offset(r, node_offset + 4)
      [] b.resp = "ModifySize" ->
           IF tok.kind = "Prop"
           THEN LET r1 == serialize_u32(
                              serialize_u32(set_offset(r, node_offset + 4), b.new_size),
                              tok.name_offset)
                IN  IF r1.result # "Running" THEN r1
                    ELSE set_offset(r1, get_offset(r1) + b.new_size)
           ELSE [r EXCEPT !.result = "InvalidParameter"]

\* Mutant: after a resize the cursor advances by the original length.
apply_response_oldlen(r, tok, node_offset, b) ==
    CASE b.resp = "Pass" -> r
      [] b.resp = "Drop" -> set_offset(r, node_offset)
      [] b.resp = "ModifySize" ->
           IF tok.kind = "Prop"
           THEN LET r1 == serialize_u32(
                              serialize_u32(set_offset(r, node_offset + 4), b.new_size),
                              tok.name_offset)
                IN  IF r1.result # "Running" THEN r1
                    ELSE set_offset(r1, get_offset(r1) + Len(tok.prop_buf))
           ELSE [r EXCEPT !.result = "InvalidParameter"]

\* match response (serializer.rs 181-204).
apply_response(r, tok, node_offset, b) ==
    CASE b.resp = "Pass" -> r
      [] b.resp = "Drop" -> set_offset(r, node_offset)
      [] b.resp = "ModifySize" ->
           IF tok.kind = "Prop"
           THEN LET r1 == serialize_u32(
                              serialize_u32(set_offset(r, node_offset + 4), b.new_size),
                              tok.name_offset)
                IN  IF r1.result # "Running" THEN r1
                    ELSE set_offset(r1, get_offset(r1) + b.new_size)
           ELSE [r EXCEPT !.result = "InvalidParameter"]

\* A call that has panicked or returned is over.
Settle(r, next_pc) ==
    [r EXCEPT !.pc = IF r.result = "Running" THEN next_pc ELSE "done"]

\* Mutant: the block is kept terminated, a provisional End tag stored after
\* every token.
emit_token_terminated(r, tok) ==
    LET emitted == serialize_token([r EXCEPT !.node_offset = get_offset(r)], tok)
        aligned == align_offset(emitted)
    IN  IF emitted.result # "Running" THEN Settle(emitted, "callback")
        ELSE Settle([aligned EXCEPT
                         !.output = write_be_u32(aligned.output, aligned.offset, FDT_END).buf],
                    "callback")

\* serializer.rs 122-177: the token is written at the cursor, node_offset
\* remembered, and the cursor aligned; the callback comes next.
emit_token(r, tok) ==
    LET emitted == serialize_token([r EXCEPT !.node_offset = get_offset(r)], tok)
    IN  IF emitted.result # "Running" THEN Settle(emitted, "callback")
        ELSE Settle(align_offset(emitted), "callback")

\* Mutant: no alignment after the directive is applied.
respond_unaligned(r, tok, b) ==
    Settle(apply_response(filter_map(r, tok, r.node_offset, b), tok, r.node_offset, b),
           "struct")

\* serializer.rs 179-206: the callback runs, its response is applied, and the
\* cursor is aligned again.
respond(r, tok, b) ==
    LET responded ==
            apply_response(filter_map(r, tok, r.node_offset, b), tok, r.node_offset, b)
    IN  IF responded.result # "Running" THEN Settle(responded, "struct")
        ELSE Settle(align_offset(responded), "struct")

\* Mutant: the structure block is written from wherever the reservation
\* entries ended.
structure_block_begin_noseek(r, dt) == [r EXCEPT !.starting_offset = get_offset(r)]

\* serializer.rs 107-111: entry of serialize_structure_block.
structure_block_begin(r, dt) ==
    set_offset([r EXCEPT !.starting_offset = get_offset(r)], dt.off_dt_struct)

\* Mutant: the block is closed with the wrong tag.
structure_block_end_nop(r) ==
    LET r1 == serialize_u32(r, FDT_NOP)
    IN  IF r1.result # "Running" THEN r1
        ELSE [r1 EXCEPT !.new_structure_block_size = get_offset(r1) - r1.starting_offset]

\* serializer.rs 209-211: the End tag and the returned size.
structure_block_end(r) ==
    LET r1 == serialize_u32(r, FDT_END)
    IN  IF r1.result # "Running" THEN r1
        ELSE [r1 EXCEPT !.new_structure_block_size = get_offset(r1) - r1.starting_offset]

set_structure_block_size(r, structure_block_size) ==
    serialize_u32(set_offset(r, 36), structure_block_size)

set_strings_block_offset(r, strings_block_offset) ==
    serialize_u32(set_offset(r, 12), strings_block_offset)

\* Mutant: the total size is patched into the wrong header field.
set_total_size_misplaced(r, total_size) == serialize_u32(set_offset(r, 8), total_size)

set_total_size(r, total_size) == serialize_u32(set_offset(r, 4), total_size)

\* Mutant: no alignment after the strings block.
serialize_strings_block_unaligned(r, dt, offset) ==
    serialize_slice(set_offset(r, offset), dt.strings)

serialize_strings_block(r, dt, offset) ==
    LET r1 == serialize_slice(set_offset(r, offset), dt.strings)
    IN  IF r1.result # "Running" THEN r1 ELSE align_offset(r1)

\* Mutant: the strings block is written back where the source had it.
modify_tail_oldstrings(r, dt) ==
    LET strings_block_offset == get_offset(r)
        r1 == serialize_strings_block(
                  set_strings_block_offset(
                      set_structure_block_size(r, r.new_structure_block_size),
                      strings_block_offset),
                  dt, dt.off_dt_strings)
        total_size == get_offset(r1)
        r2 == set_total_size(r1, total_size)
    IN  IF r2.result # "Running" THEN r2
        ELSE [r2 EXCEPT !.result = "Ok", !.ret = total_size]

\* serializer.rs 52-61: the tail of modify.
modify_tail(r, dt) ==
    LET strings_block_offset == get_offset(r)
        r1 == serialize_strings_block(
                  set_strings_block_offset(
                      set_structure_block_size(r, r.new_structure_block_size),
                      strings_block_offset),
                  dt, strings_block_offset)
        total_size == get_offset(r1)
        r2 == set_total_size(r1, total_size)
    IN  IF r2.result # "Running" THEN r2
        ELSE [r2 EXCEPT !.result = "Ok", !.ret = total_size]

\* ----------------------------------------------------------------- state

VARIABLES
    devtree,    \* the parsed source tree
    ser,        \* the modify call on a Serializer that may have been used before
    fresh,      \* the same call on a freshly created Serializer, in lock step
    nodes,      \* parse_iter(): the number of tokens it has yielded
    hist,       \* one record per callback invocation
    seen,       \* the output buffer as the last callback invocation left it
    end_offset, \* where the End tag was written (-1: not yet)
    parse_err,  \* the token iterator ended with an Err
    acc         \* one accessor call on its own: its arguments and its result

vars == <<devtree, ser, fresh, nodes, hist, seen, end_offset, parse_err, acc>>

\* Cursor values a reused Serializer holds before the call (8: where a
\* successful modify leaves it, after set_total_size; 60: where a modify stopped
\* inside a structure block). A fresh Serializer (Default) holds 0.
PriorOffsets == {8, 60}

\* Lengths of the destination buffer.
BufLens == {38, 50, 66, MaxBuf}

\* Prior contents of the destination buffer.
FillBytes == {238}

\* No accessor call on its own.
NoCall ==
    [buf |-> <<>>, pos |-> 0, value |-> 0, width |-> 0, called |-> FALSE,
     result |-> [ok |-> FALSE, buf |-> <<>>, fault |-> "none"]]

Init ==
    \E layout \in SourceLayouts, toks \in TokenStreams, len \in BufLens,
       fill \in FillBytes, prior \in PriorOffsets :
        /\ devtree = DevTree(layout, toks)
        /\ ser = NewCall(prior, [i \in 1..len |-> fill])
        /\ fresh = NewCall(0, [i \in 1..len |-> fill])
        /\ nodes = 0
        /\ hist = <<>>
        /\ seen = [i \in 1..len |-> fill]
        /\ end_offset = -1
        /\ parse_err = FALSE
        /\ acc = NoCall

\* The same step, taken by the call on the fresh Serializer.
InStep(r, stepped) == IF r.pc = ser.pc THEN stepped ELSE r

Header ==
    /\ ser.pc = "header"
    /\ ser' = Settle(serialize_header(ser, devtree), "rsvmap")
    /\ fresh' = InStep(fresh, Settle(serialize_header(fresh, devtree), "rsvmap"))
    /\ UNCHANGED <<devtree, nodes, hist, seen, end_offset, parse_err, acc>>

ReservationBlock ==
    /\ ser.pc = "rsvmap"
    /\ ser' = Settle(serialize_memory_reservation_block(ser, devtree), "begin")
    /\ fresh' = InStep(fresh,
                       Settle(serialize_memory_reservation_block(fresh, devtree), "begin"))
    /\ UNCHANGED <<devtree, nodes, hist, seen, end_offset, parse_err, acc>>

StructureBegin ==
    /\ ser.pc = "begin"
    /\ ser' = Settle(structure_block_begin(ser, devtree), "struct")
    /\ fresh' = InStep(fresh, Settle(structure_block_begin(fresh, devtree), "struct"))
    /\ UNCHANGED <<devtree, nodes, hist, seen, end_offset, parse_err, acc>>

\* nodes.next() yields the next token, which is written at the cursor.
EmitToken ==
    /\ ser.pc = "struct"
    /\ nodes < Len(devtree.tokens)
    /\ ser' = emit_token(ser, devtree.tokens[nodes + 1])
    /\ fresh' = InStep(fresh, emit_token(fresh, devtree.tokens[nodes + 1]))
    /\ nodes' = nodes + 1
    /\ UNCHANGED <<devtree, hist, seen, end_offset, parse_err, acc>>

\* The callback's view of one invocation: the token, where it starts, the
\* original_size it is handed, what the callback answered, and the first bytes
\* of the window as the callback left them (as many as the emitted property is
\* to have).
Invocation(r, tok, b) ==
    LET left == filter_map(r, tok, r.node_offset, b)
        n == IF b.resp = "ModifySize" THEN b.new_size ELSE Len(tok.prop_buf)
        last == IF prop_offset(r.node_offset) + n <= Len(left.output)
                THEN prop_offset(r.node_offset) + n ELSE Len(left.output)
    IN  [tok |-> tok, node_offset |-> r.node_offset,
         original_size |-> original_size(tok), response |-> b,
         window |-> IF tok.kind = "Prop"
                    THEN SubSeq(left.output, prop_offset(r.node_offset) + 1, last)
                    ELSE <<>>]

\* filter_map is called for the token just written and its response applied.
Callback ==
    /\ ser.pc = "callback"
    /\ LET tok == devtree.tokens[nodes]
       IN  \E b \in CallbackBehaviours(tok) :
              /\ Fits(ser, tok, ser.node_offset, b)
              /\ ser' = respond(ser, tok, b)
              /\ fresh' = InStep(fresh, respond(fresh, tok, b))
              /\ hist' = Append(hist, Invocation(ser, tok, b))
              /\ seen' = filter_map(ser, tok, ser.node_offset, b).output
    /\ UNCHANGED <<devtree, nodes, end_offset, parse_err, acc>>

\* nodes.next() is Ok(None) at the end of the stream, or Err(e) when the source
\* is malformed there: `while let Ok(Some(token))` leaves the loop on both.
StructureEnd ==
    /\ ser.pc = "struct"
    /\ nodes = Len(devtree.tokens)
    /\ \E err \in BOOLEAN : parse_err' = err
    /\ ser' = Settle(structure_block_end(ser), "tail")
    /\ fresh' = InStep(fresh, Settle(structure_block_end(fresh), "tail"))
    /\ end_offset' = IF structure_block_end(ser).result = "Running"
                     THEN get_offset(ser) ELSE end_offset
    /\ UNCHANGED <<devtree, nodes, hist, seen, acc>>

ModifyTail ==
    /\ ser.pc = "tail"
    /\ ser' = [modify_tail(ser, devtree) EXCEPT !.pc = "done"]
    /\ fresh' = InStep(fresh, [modify_tail(fresh, devtree) EXCEPT !.pc = "done"])
    /\ UNCHANGED <<devtree, nodes, hist, seen, end_offset, parse_err, acc>>

Next ==
    \/ Header
    \/ ReservationBlock
    \/ StructureBegin
    \/ EmitToken
    \/ Callback
    \/ StructureEnd
    \/ ModifyTail

Spec == Init /\ [][Next]_vars

\* ----------------------------------------------- the accessors on their own

\* Offsets handed to an accessor: around the buffer's end, and within 8 of
\* usize::MAX.
AccPositions == (0..(MaxAccLen + 1)) \cup ((UsizeMax - 8)..UsizeMax)

\* The value written: 0x01020304.
AccValue == 16909060

AccInit ==
    \E len \in 0..MaxAccLen, pos \in AccPositions, fill \in FillBytes :
        /\ acc = [NoCall EXCEPT !.buf = [i \in 1..len |-> fill], !.pos = pos,
                                !.value = AccValue]
        /\ devtree = DevTree(CHOOSE layout \in SourceLayouts : layout.nrsv = 1, <<>>)
        /\ ser = NewCall(0, <<>>)
        /\ fresh = NewCall(0, <<>>)
        /\ nodes = 0
        /\ hist = <<>>
        /\ seen = <<>>
        /\ end_offset = -1
        /\ parse_err = FALSE

\* The accessor's result in a build with or without overflow checks.
Built(r, w, overflow_checks) ==
    IF r.fault = "overflow" THEN overflowed(acc.buf, w, acc.pos, overflow_checks) ELSE r

WriteU32 ==
    /\ ~acc.called
    /\ \E overflow_checks \in BOOLEAN :
           acc' = [acc EXCEPT !.called = TRUE, !.width = 4,
                              !.result = Built(write_be_u32(acc.buf, acc.pos, acc.value),
                                               4, overflow_checks)]
    /\ UNCHANGED <<devtree, ser, fresh, nodes, hist, seen, end_offset, parse_err>>

WriteU64 ==
    /\ ~acc.called
    /\ \E overflow_checks \in BOOLEAN :
           acc' = [acc EXCEPT !.called = TRUE, !.width = 8,
                              !.result = Built(write_be_u64(acc.buf, acc.pos, acc.value),
                                               8, overflow_checks)]
    /\ UNCHANGED <<devtree, ser, fresh, nodes, hist, seen, end_offset, parse_err>>

AccNext ==
    \/ WriteU32
    \/ WriteU64

AccessorSpec == AccInit /\ [][AccNext]_vars

\* ------------------------------------------------------- reading it back

\* The token stream of a structure block at off, as parse_iter() decodes the
\* wire format: tags, null-terminated names, length-prefixed values, padding
\* to 4 bytes; it stops at the End tag. A malformed block decodes to a stream
\* ending in InvalidTok.
InvalidTok == [kind |-> "Invalid", name |-> <<>>, name_offset |-> 0, prop_buf |-> <<>>]

RECURSIVE parse_from(_, _, _)
parse_from(buf, off, fuel) ==
    LET tag == read_be_u32(buf, off)
    IN  IF fuel = 0 \/ ~tag.ok THEN <<InvalidTok>>
        ELSE CASE tag.val = FDT_END -> <<>>
               [] tag.val = FDT_NOP -> <<NopTok>> \o parse_from(buf, off + 4, fuel - 1)
               [] tag.val = FDT_END_NODE ->
                    <<EndNodeTok>> \o parse_from(buf, off + 4, fuel - 1)
               [] tag.val = FDT_BEGIN_NODE ->
                    LET name == read_bstring0(buf, off + 4)
                    IN  IF ~name.ok THEN <<InvalidTok>>
                        ELSE <<BeginNodeTok(name.val)>>
                             \o parse_from(buf, AlignUp4(off + 4 + Len(name.val) + 1),
                                           fuel - 1)
               [] tag.val = FDT_PROP ->
                    LET len == read_be_u32(buf, off + 4)
                        name_offset == read_be_u32(buf, off + 8)
                    IN  IF ~len.ok \/ ~name_offset.ok \/ len.val < 0
                           \/ off + 12 + len.val > Len(buf)
                        THEN <<InvalidTok>>
                        ELSE <<PropTok(name_offset.val,
                                       SubSeq(buf, off + 13, off + 12 + len.val))>>
                             \o parse_from(buf, AlignUp4(off + 12 + len.val), fuel - 1)
               [] OTHER -> <<InvalidTok>>

\* A header field of the output.
HeaderField(off) == read_be_u32(ser.output, off).val

\* The structure block of the output, decoded from the output's off_dt_struct.
OutputTokens == parse_from(ser.output, HeaderField(8), Len(hist) + 1)

Success == ser.pc = "done" /\ ser.result = "Ok"

\* The source's structure block starts 4-byte aligned.
AlignedSource == devtree.off_dt_struct % 4 = 0

Invocations == 1..Len(hist)

IsResize(i) == hist[i].response.resp = "ModifySize"

IsProp(i) == hist[i].tok.kind = "Prop"

\* Where the token after invocation i (or the End tag) starts; -1 while neither
\* has been started.
NextStart(i) ==
    IF i < Len(hist) THEN hist[i + 1].node_offset
    ELSE IF end_offset # -1 THEN end_offset
    ELSE -1

\* The source tokens the callback answered Pass for, in order.
RECURSIVE Passed(_)
Passed(h) ==
    IF h = <<>> THEN <<>>
    ELSE (IF Head(h).response.resp = "Pass" THEN <<Head(h).tok>> ELSE <<>>)
         \o Passed(Tail(h))

\* ----------------------------------------------------------------- claims

\* C1 (as claimed, on a valid source): after a successful modify the
\* structure-size field at header offset 36 is the number of bytes from
\* off_dt_struct to just past the End tag, so strings-offset =
\* structure-offset + structure-size.
C1_StructureSizeIsExtent ==
    (Success /\ AlignedSource) =>
        /\ HeaderField(36) = (end_offset + 4) - HeaderField(8)
        /\ HeaderField(12) = HeaderField(8) + HeaderField(36)

\* C2: after a successful modify the returned value is the total-size field at
\* header offset 4, and both are strings-offset (offset 12) + strings-size
\* (offset 32) rounded up to a multiple of 4.
C2_TotalSizeConsistent ==
    Success =>
        /\ ser.ret = HeaderField(4)
        /\ ser.ret = AlignUp4(HeaderField(12) + HeaderField(32))

\* C2's case: a successful call whose strings block does not end on a 4-byte
\* boundary and whose structure block changed size.
C2_Witness ==
    /\ Success
    /\ (HeaderField(12) + HeaderField(32)) % 4 # 0
    /\ HeaderField(12) # devtree.off_dt_strings
    /\ \E i \in Invocations : IsResize(i)

\* C3 (as claimed): a write that would exceed the destination buffer makes
\* modify return an end-of-input error; the call never traps.
C3_CapacityFailureIsAnError == ser.result # "Panic"

\* C4: once the callback answers ModifySize for a BeginNode, EndNode or Nop,
\* modify is over with InvalidParameter: that invocation is the last one, the
\* output is as that invocation left it (no later token, no End tag), and the
\* total-size, strings-offset and structure-size fields still hold the
\* source's values.
C4_ResizeOfNonPropRejected ==
    \A i \in Invocations :
        (IsResize(i) /\ ~IsProp(i)) =>
            /\ ser.pc = "done"
            /\ ser.result = "InvalidParameter"
            /\ i = Len(hist)
            /\ ser.output = seen
            /\ end_offset = -1
            /\ HeaderField(4) = devtree.totalsize
            /\ HeaderField(12) = devtree.off_dt_strings
            /\ HeaderField(36) = devtree.size_dt_struct

\* C4's case: the rejected directive came after earlier tokens were processed,
\* one of them resized, with further source tokens still to come.
C4_Witness ==
    /\ ser.result = "InvalidParameter"
    /\ Len(hist) >= 2
    /\ Len(hist) < Len(devtree.tokens)
    /\ IsResize(1) /\ IsProp(1)

\* C5 (as claimed): a token stream that ended with a parser error never gives
\* a successful modify.
C5_ParserErrorPropagates == parse_err => ser.result # "Ok"

\* The callback passed every token through untouched.
AllPassThrough == \A i \in Invocations : hist[i].response = Pass

\* C6: for a valid source and a callback that passes every token through, the
\* output's structure block decodes to exactly the source token sequence,
\* followed by End.
C6_PassThroughRoundTrip ==
    (Success /\ AlignedSource /\ AllPassThrough) => OutputTokens = devtree.tokens

\* C6's case: a successful pass-through of a stream with a named node, a
\* property and a third token.
C6_Witness ==
    /\ Success /\ AlignedSource /\ AllPassThrough
    /\ Len(hist) >= 3
    /\ \E i \in Invocations : IsProp(i)
    /\ \E i \in Invocations : hist[i].tok.kind = "BeginNode" /\ hist[i].tok.name # <<>>

\* C7: when every directive is Pass or Drop, the output's structure block
\* decodes to the source tokens answered with Pass, in order and unchanged,
\* followed by End.
C7_DropRemovesExactlyDropped ==
    (Success /\ AlignedSource /\ \A i \in Invocations : hist[i].response \in {Pass, Drop})
        => OutputTokens = Passed(hist)

\* C7's case: a property dropped between two retained tokens.
C7_Witness ==
    /\ Success /\ AlignedSource
    /\ Len(hist) = 3
    /\ hist[1].response = Pass /\ hist[2].response = Drop /\ hist[3].response = Pass
    /\ IsProp(2)
    /\ hist[3].tok.kind = "BeginNode"

\* C8: a property answered with ModifySize(n) is emitted with length field n,
\* the source's name offset and, as its value, the first n bytes of the window
\* as the callback left them; what follows it starts at the property's start
\* + 12 + n rounded up to a multiple of 4.
C8_ResizedProperty ==
    \A i \in Invocations :
        (IsResize(i) /\ IsProp(i)) =>
            LET start == hist[i].node_offset
                n == hist[i].response.new_size
            IN  /\ read_be_u32(ser.output, start + 4).val = n
                /\ read_be_u32(ser.output, start + 8).val = hist[i].tok.name_offset
                /\ SubSeq(ser.output, start + 13, start + 12 + Len(hist[i].window))
                       = hist[i].window
                /\ NextStart(i) # -1 => NextStart(i) = AlignUp4(start + 12 + n)
                /\ Success => Len(hist[i].window) = n

\* C8's case: a successful call that grew one property and shrank another,
\* with a token after each.
C8_Witness ==
    /\ Success
    /\ Len(hist) = 3
    /\ IsProp(1) /\ hist[1].response = ModifySize(6, CbBytes(6))
    /\ IsProp(2) /\ hist[2].response = ModifySize(1, CbBytes(1))

\* C9: when the source's structure block starts 4-byte aligned, every token
\* written, the End tag and the strings block start at a multiple of 4.
C9_TokensAligned ==
    AlignedSource =>
        /\ \A i \in Invocations : hist[i].node_offset % 4 = 0
        /\ end_offset # -1 => end_offset % 4 = 0
        /\ Success => HeaderField(12) % 4 = 0

\* C9's case: a successful call with a resize to an odd length, a drop and a
\* named node, on an aligned source.
C9_Witness ==
    /\ Success /\ AlignedSource
    /\ \E i \in Invocations : IsResize(i) /\ hist[i].response.new_size % 4 = 1
    /\ \E i \in Invocations : hist[i].response = Drop
    /\ \E i \in Invocations : hist[i].tok.kind = "BeginNode" /\ hist[i].tok.name # <<>>

\* C10: the call on a Serializer used before ends as the same call on a fresh
\* Serializer does: same outcome, same returned size, same output bytes.
C10_StatelessBetweenCalls ==
    ser.pc = "done" =>
        /\ fresh.pc = "done"
        /\ ser.result = fresh.result
        /\ ser.ret = fresh.ret
        /\ ser.output = fresh.output

\* C10's case: both calls have finished successfully after processing tokens
\* (the reused Serializer started from a cursor of 8 or 60, the fresh one from 0).
C10_Witness ==
    /\ ser.pc = "done" /\ fresh.pc = "done"
    /\ ser.result = "Ok"
    /\ Len(hist) >= 2
    /\ \E i \in Invocations : IsResize(i)

\* The token the bytes at off decode to.
TokenAt(buf, off) ==
    LET toks == parse_from(buf, off, 1)
    IN  IF toks = <<>> THEN InvalidTok ELSE Head(toks)

\* C11: the callback is invoked once per source token, in stream order; when
\* it is invoked the token's bytes stand at node_offset and nothing of what
\* comes later (a further token fetched, the End tag, the back-patched header
\* fields) has happened; its directive is applied before the next token is
\* fetched.
C11_CallbackOrdering ==
    /\ \A i \in Invocations : hist[i].tok = devtree.tokens[i]
    /\ ser.pc = "callback" =>
           /\ nodes = Len(hist) + 1
           /\ TokenAt(ser.output, ser.node_offset) = devtree.tokens[nodes]
           /\ end_offset = -1
           /\ HeaderField(4) = devtree.totalsize
           /\ HeaderField(12) = devtree.off_dt_strings
           /\ HeaderField(36) = devtree.size_dt_struct
    /\ ser.pc = "struct" => nodes = Len(hist)
    /\ end_offset # -1 => Len(hist) = Len(devtree.tokens)
    /\ Success => Len(hist) = Len(devtree.tokens)

\* C11's case: the callback is about to run for a property that is the third
\* token, after a dropped one.
C11_Witness ==
    /\ ser.pc = "callback"
    /\ Len(hist) = 2
    /\ devtree.tokens[nodes].kind = "Prop"
    /\ hist[2].response = Drop

\* The byte the destination buffer held before the call. The pass never stores
\* this value (header fields, tags, lengths, names, values, callback bytes and
\* strings are all other bytes), so a byte that still holds it has not been
\* written.
PriorByte == CHOOSE f \in FillBytes : TRUE

Unwritten(o) == ser.output[o + 1] = PriorByte

\* Bytes stored for invocation i, from its node_offset on: the token as
\* written, and what the callback stored into the window.
WrittenLen(i) ==
    LET tok == hist[i].tok
        emitted == CASE tok.kind = "BeginNode" ->
                          IF tok.name = <<>> THEN 8 ELSE 4 + Len(tok.name) + 1
                     [] tok.kind = "Prop" -> 12 + Len(tok.prop_buf)
                     [] OTHER -> 4
        stored == IF hist[i].response.data = <<>> THEN 0
                  ELSE 12 + Len(hist[i].response.data)
    IN  IF stored > emitted THEN stored ELSE emitted

\* Bytes invocation i keeps in the output: none when dropped, the resized
\* property when resized, the token as written otherwise.
RetainedLen(i) ==
    CASE hist[i].response.resp = "Drop" -> 0
      [] IsResize(i) /\ IsProp(i) -> 12 + hist[i].response.new_size
      [] OTHER -> WrittenLen(i)

\* Invocation i left bytes behind that it does not keep.
LeftOver(i) == RetainedLen(i) < WrittenLen(i)

\* C12 (as claimed): when the callback is invoked, no byte at or beyond the
\* end of the just-written token has been written earlier in this pass.
C12_NothingWrittenPastCursor ==
    ser.pc = "callback" =>
        \A o \in ser.offset..(Len(ser.output) - 1) : Unwritten(o)

\* C12 (amended): when the callback is invoked, every token retained so far
\* ends at or before the start of the just-written token, and a byte at or
\* beyond the end of the just-written token that was written earlier in this
\* pass is a leftover of a token that was dropped or resized to fewer bytes
\* than were stored for it.
C12_OnlyLeftoversPastCursor ==
    ser.pc = "callback" =>
        /\ \A i \in Invocations :
               hist[i].node_offset + RetainedLen(i) <= ser.node_offset
        /\ \A o \in ser.offset..(Len(ser.output) - 1) :
               Unwritten(o) \/ \E i \in Invocations :
                                   /\ LeftOver(i)
                                   /\ hist[i].node_offset <= o
                                   /\ o < hist[i].node_offset + WrittenLen(i)

\* C12's case: the callback is about to run for a property whose window,
\* right after the value, shows bytes of a node name dropped earlier.
C12_Witness ==
    /\ ser.pc = "callback"
    /\ devtree.tokens[nodes].kind = "Prop"
    /\ \E i \in Invocations : hist[i].response = Drop /\ hist[i].tok.kind = "BeginNode"
    /\ ~Unwritten(ser.node_offset + 12 + Len(devtree.tokens[nodes].prop_buf))


\* C13: when modify returns success, the total size returned and written at
\* header offset 4 is at most the length of the destination buffer.
C13_TotalSizeWithinBuffer ==
    Success => /\ ser.ret <= Len(ser.output)
               /\ HeaderField(4) <= Len(ser.output)

\* Where the structure block read back from off ends: the offset of its End
\* tag, or -1 when the bytes do not decode to a token stream ending in End.
RECURSIVE end_from(_, _, _)
end_from(buf, off, fuel) ==
    LET tag == read_be_u32(buf, off)
    IN  IF fuel = 0 \/ ~tag.ok THEN -1
        ELSE CASE tag.val = FDT_END -> off
               [] tag.val = FDT_END_NODE \/ tag.val = FDT_NOP ->
                      end_from(buf, off + 4, fuel - 1)
               [] tag.val = FDT_BEGIN_NODE ->
                      LET name == read_bstring0(buf, off + 4)
                      IN  IF ~name.ok THEN -1
                          ELSE end_from(buf, AlignUp4(off + 4 + Len(name.val) + 1), fuel - 1)
               [] tag.val = FDT_PROP ->
                      LET len == read_be_u32(buf, off + 4)
                      IN  IF ~len.ok \/ len.val < 0 THEN -1
                          ELSE end_from(buf, AlignUp4(off + 12 + len.val), fuel - 1)
               [] OTHER -> -1

\* Invocations whose token stays in the output.
Retained == {i \in Invocations : hist[i].response.resp # "Drop"}

\* Where the last retained token ends (the block's start when none is).
LastRetainedEnd ==
    IF Retained = {} THEN devtree.off_dt_struct
    ELSE LET last == CHOOSE i \in Retained : \A j \in Retained : j <= i
         IN  AlignUp4(hist[last].node_offset + RetainedLen(last))

\* C14: on success the writer has emitted one End tag, the last 4 bytes of the
\* structure block: it stands at strings-offset - 4, right after the last
\* retained token (at the block's start when the stream is empty or every
\* token was dropped), it is where reading the block back ends, and no
\* invocation of the callback was for an End token.
C14_OneEndTagLast ==
    /\ \A i \in Invocations :
           hist[i].tok.kind \in {"BeginNode", "EndNode", "Prop", "Nop"}
    /\ Success =>
           /\ end_offset = HeaderField(12) - 4
           /\ read_be_u32(ser.output, end_offset) = [ok |-> TRUE, val |-> FDT_END]
           /\ AlignedSource =>
                  /\ end_from(ser.output, HeaderField(8), Len(hist) + 1) = end_offset
                  /\ end_offset = LastRetainedEnd

\* C14's case: a successful call that dropped every token of a non-empty
\* stream.
C14_Witness ==
    /\ Success
    /\ AlignedSource
    /\ Len(hist) = MaxTokens
    /\ Retained = {}
    /\ end_offset = devtree.off_dt_struct

\* C15: after a successful modify the output bytes from the strings offset
\* on, for the strings size, are the source's strings-block bytes in order,
\* and every property retained under Pass or ModifySize carries the
\* name_offset it has in the source.
C15_StringsUnaltered ==
    Success =>
        /\ HeaderField(32) = Len(devtree.strings)
        /\ SubSeq(ser.output, HeaderField(12) + 1, HeaderField(12) + HeaderField(32))
               = devtree.strings
        /\ \A i \in Retained :
               IsProp(i) =>
                   read_be_u32(ser.output, hist[i].node_offset + 8)
                       = [ok |-> TRUE, val |-> hist[i].tok.name_offset]

\* C15's case: a successful call that moved the strings block and kept one
\* property as it was and one resized.
C15_Witness ==
    /\ Success
    /\ HeaderField(12) # devtree.off_dt_strings
    /\ \E i \in Retained : IsProp(i) /\ IsResize(i)
    /\ \E i \in Retained : IsProp(i) /\ hist[i].response = Pass

\* The header bytes the back-patches may change: total size, strings offset,
\* structure size.
PatchedBytes == (4..7) \cup (12..15) \cup (36..39)

\* C16: after a successful modify the output header's magic, structure-block
\* offset, memory-reservation-block offset, version, last compatible version,
\* boot CPU id and strings-block size equal the source's values, and the tail
\* of modify (the back-patches and the strings block) changes no byte before
\* the strings block other than those of the total-size, strings-offset and
\* structure-size fields.
C16_HeaderFrame ==
    /\ [](Success =>
              /\ HeaderField(0) = FDT_MAGIC
              /\ HeaderField(8) = devtree.off_dt_struct
              /\ HeaderField(16) = devtree.off_mem_rsvmap
              /\ HeaderField(20) = devtree.version
              /\ HeaderField(24) = devtree.last_comp_version
              /\ HeaderField(28) = devtree.boot_cpuid_phys
              /\ HeaderField(32) = devtree.size_dt_strings)
    /\ [][ser.pc = "tail" =>
              \A o \in 0..(ser.offset - 1) :
                  o < Len(ser.output) /\ ser'.output[o + 1] # ser.output[o + 1]
                      => o \in PatchedBytes]_vars

\* C16's case: a successful call on a source whose blocks start at or after
\* byte 40 and whose three back-patched fields all changed.
C16_Witness ==
    /\ Success
    /\ devtree.off_mem_rsvmap >= HeaderSize
    /\ devtree.off_dt_struct >= HeaderSize
    /\ HeaderField(4) # devtree.totalsize
    /\ HeaderField(12) # devtree.off_dt_strings
    /\ HeaderField(36) # devtree.size_dt_struct

\* The nesting depth after toks, starting from depth; -1 once an EndNode has
\* no open BeginNode or a token is not one of the four kinds.
RECURSIVE depth_after(_, _)
depth_after(toks, depth) ==
    IF depth < 0 \/ toks = <<>> THEN depth
    ELSE CASE Head(toks).kind = "BeginNode" -> depth_after(Tail(toks), depth + 1)
           [] Head(toks).kind = "EndNode" -> depth_after(Tail(toks), depth - 1)
           [] Head(toks).kind \in {"Prop", "Nop"} -> depth_after(Tail(toks), depth)
           [] OTHER -> -1

\* Every BeginNode has a matching later EndNode and the other way round.
WellNested(toks) == depth_after(toks, 0) = 0

\* The BeginNode and EndNode tokens of toks, in order.
RECURSIVE Skeleton(_)
Skeleton(toks) ==
    IF toks = <<>> THEN <<>>
    ELSE (IF Head(toks).kind \in {"BeginNode", "EndNode"} THEN <<Head(toks)>> ELSE <<>>)
         \o Skeleton(Tail(toks))

\* The callback returned Drop only for Nop and Prop tokens.
DropsSelfContained ==
    \A i \in Invocations :
        hist[i].response.resp = "Drop" => hist[i].tok.kind \in {"Nop", "Prop"}

\* C18: if the source token sequence is well nested and the callback returns
\* Drop only for Nop and Prop tokens, the token sequence of a successful
\* modify's output is well nested, with the same BeginNode and EndNode tokens
\* in the same order (hence the same pairing) as the source.
C18_NestingPreserved ==
    (Success /\ AlignedSource /\ WellNested(devtree.tokens) /\ DropsSelfContained) =>
        /\ WellNested(OutputTokens)
        /\ Skeleton(OutputTokens) = Skeleton(devtree.tokens)

\* C18's case: a successful call on a node holding one token, which is dropped.
C18_Witness ==
    /\ Success
    /\ AlignedSource
    /\ WellNested(devtree.tokens)
    /\ DropsSelfContained
    /\ Len(devtree.tokens) = 3
    /\ devtree.tokens[1].kind = "BeginNode"
    /\ devtree.tokens[1].name # <<>>
    /\ hist[2].response = Drop
    /\ Len(OutputTokens) = 2

\* C19: the emitted image does not depend on the destination buffer's prior
\* contents, i.e. after a successful modify every byte in [0, returned total
\* size) has been written during the pass, for a 4-byte-aligned source and an
\* image that lies inside the buffer. (A byte of the image that no write
\* reached holds what the buffer held before, so two runs that differ in that
\* prior byte differ in the image.)
C19_ImageFullyWritten ==
    (Success /\ AlignedSource /\ ser.ret <= Len(ser.output)) =>
        \A o \in 0..(ser.ret - 1) : ~Unwritten(o)

\* The directive of the step being taken, when it is a callback step.
Directive == hist'[Len(hist')].response

\* C20 (as claimed): the cursor is 0 at the start of the structure-block
\* sub-phase, and inside the structure block it never decreases except for the
\* rewind to the token's start offset when the directive is Drop.
C20_CursorResetAndMonotone ==
    /\ []((ser.pc = "struct" /\ nodes = 0) => ser.offset = 0)
    /\ [][ser.pc \in {"struct", "callback"} =>
              \/ ser'.offset >= ser.offset
              \/ /\ ser.pc = "callback"
                 /\ Directive = Drop
                 /\ ser'.offset = AlignUp4(ser.node_offset)]_vars

\* C20 (amended): each sub-phase starts with the cursor at its own start
\* offset (0 for the header, off_mem_rsvmap for the reservation block,
\* off_dt_struct for the structure block, the offset just past the End tag
\* for the strings block); inside the structure block the cursor never
\* decreases from one step to the next except when the directive is Drop (it
\* is rewound to the token's start offset) or ModifySize of a property (it is
\* placed at the end of the resized property); the call ends with the cursor
\* at 8, after the back-patch of the total size.
C20_CursorLifecycle ==
    /\ [][(ser.pc = "header" /\ ser'.result = "Running") =>
              /\ ser'.offset = HeaderSize
              /\ read_be_u32(ser'.output, 0).val = FDT_MAGIC]_vars
    /\ [][(ser.pc = "rsvmap" /\ ser'.result = "Running") =>
              ser'.offset = devtree.off_mem_rsvmap
                                + RsvEntrySize * Len(devtree.reserved_entries)]_vars
    /\ [][ser.pc = "begin" => ser'.offset = devtree.off_dt_struct]_vars
    /\ [][ser.pc \in {"struct", "callback"} =>
              \/ ser'.offset >= ser.offset
              \/ /\ ser.pc = "callback"
                 /\ Directive = Drop
                 /\ ser'.offset = AlignUp4(ser.node_offset)
              \/ /\ ser.pc = "callback"
                 /\ Directive.resp = "ModifySize"
                 /\ devtree.tokens[nodes].kind = "Prop"
                 /\ ser'.offset
                        = AlignUp4(prop_offset(ser.node_offset) + Directive.new_size)]_vars
    /\ [][(ser.pc = "tail" /\ ser'.result = "Ok") =>
              /\ ser'.offset = 8
              /\ SubSeq(ser'.output, ser.offset + 1, ser.offset + Len(devtree.strings))
                     = devtree.strings]_vars

\* C20's case: the structure block started away from 0, a property was then
\* resized to a length that moved the cursor back, and the next token was
\* dropped, which rewound the cursor to that token's start.
C20_Witness ==
    /\ ser.pc = "struct"
    /\ ser.result = "Running"
    /\ devtree.off_dt_struct > 0
    /\ Len(hist) = 2
    /\ IsProp(1) /\ IsResize(1)
    /\ hist[2].node_offset < hist[1].node_offset + WrittenLen(1)
    /\ hist[2].response = Drop
    /\ hist[2].tok.kind = "BeginNode" /\ hist[2].tok.name # <<>>
    /\ ser.offset = hist[2].node_offset

\* C17: for every buffer length and every offset pos a usize can hold,
\* write_be_u32 and write_be_u64 return UnexpectedEndOfInput exactly when
\* pos + width exceeds the length in true arithmetic, and otherwise store
\* exactly the bytes pos .. pos + width - 1, big-endian; they never trap and
\* never touch a byte outside the buffer.
C17_AccessorBoundsCheck ==
    acc.called =>
        LET beyond == acc.pos + acc.width > Len(acc.buf)
        IN  /\ acc.result.fault = "none"
            /\ acc.result.ok = ~beyond
            /\ Len(acc.result.buf) = Len(acc.buf)
            /\ \A o \in 0..(Len(acc.buf) - 1) :
                   acc.result.buf[o + 1] =
                       IF ~beyond /\ acc.pos <= o /\ o < acc.pos + acc.width
                       THEN to_be(acc.value, acc.width)[o - acc.pos + 1]
                       ELSE acc.buf[o + 1]

====
